---- MODULE Spec2Model ----
(***************************************************************************)
(* HTTP/JSON-RPC front end (main.py) and SQL tool executor                 *)
(* (sql_server_tools.py) of the MCP SQL Server sample.                     *)
(*                                                                         *)
(* Every in-flight HTTP request occupies one worker slot.  A request goes  *)
(* through the app-wide API-key dependency, then through its route         *)
(* handler; a handler that calls a tool suspends at the executor, whose    *)
(* database steps (connect, execute, leave the with block, return) are     *)
(* separate actions so that concurrent requests interleave there.          *)
(***************************************************************************)
EXTENDS Integers, Sequences, FiniteSets, TLC

VARIABLES
    env,    \* os.environ of the process: API_KEYS, SQL_SERVER_CONNECTION_STRING
    dbUp,   \* whether the database server currently accepts connections
    conns,  \* handles of the database connections that are open
    req     \* per worker slot: the request it serves and the handler's locals

vars == <<env, dbUp, conns, req>>

\* Number of requests that can be in flight at once.
MaxWorkers == 2

Workers == 1..MaxWorkers

(***************************************************************************)
(* Values.  JSON values and Python values are tagged records; k is the     *)
(* type tag.  JAbsent stands for a key that a dict does not have.          *)
(***************************************************************************)
JAbsent == [k |-> "absent"]
JNull == [k |-> "null"]
JInt(n) == [k |-> "int", v |-> n]
JStr(s) == [k |-> "str", v |-> s]
JBool(b) == [k |-> "bool", v |-> b]
\* a JSON number written with a fraction or an exponent (Python float)
JFloat(lit) == [k |-> "float", lit |-> lit]
JList(items) == [k |-> "list", items |-> items]
\* an ordered mapping: a sequence of <<key, value>> pairs
JDict(items) == [k |-> "dict", items |-> items]

\* Python-only scalars that pyodbc hands back for SQL column types
PyDatetime(iso) == [k |-> "datetime", iso |-> iso]
PyDecimal(lit) == [k |-> "decimal", lit |-> lit]
PyBytes == [k |-> "bytes"]

\* The `arguments` object of a tool call: {"query": q}, or {} when q is absent.
JArgs(q) == [k |-> "object", query |-> q]
\* The `params` object of a JSON-RPC tools/call request.
JParams(n, a) == [k |-> "object", name |-> n, arguments |-> a]
\* A request body that is a JSON object.
JBody(i, m, p, n, a) ==
    [k |-> "object", id |-> i, method |-> m, params |-> p, name |-> n, arguments |-> a]
\* A request body that parses as JSON but is no object (an array, a number).
NonObjectBody == [k |-> "array"]
\* A request body that is missing or does not parse as JSON.
InvalidBody == [k |-> "invalid"]

\* Python's {} literal used as a default for params / arguments
EmptyParams == JParams(JAbsent, JAbsent)
EmptyArgs == JArgs(JAbsent)

\* isinstance(v, dict) for a decoded JSON value: only dicts have .get
IsDict(v) == v.k = "object"

\* d.get(f, dflt) on a dict d
Get(d, f, dflt) == IF d[f] = JAbsent THEN dflt ELSE d[f]

\* d.get(f): None when the key is missing
Get1(d, f) == Get(d, f, JNull)

\* Python truthiness, as used by `not query`, `a or b` and bool(...)
Truthy(v) ==
    CASE v.k \in {"absent", "null"} -> FALSE
      [] v.k = "str" -> v.v # ""
      [] v.k = "int" -> v.v # 0
      [] v.k = "bool" -> v.v
      [] v.k = "object" -> \E f \in (DOMAIN v) \ {"k"} : v[f] # JAbsent
      [] OTHER -> TRUE

\* Python's `a or b`
PyOr(a, b) == IF Truthy(a) THEN a ELSE b

\* str(v) inside an f-string, for the values a tool name can take
PyStr(v) == IF v.k = "str" THEN v.v ELSE "None"

(***************************************************************************)
(* JSON serialisation of tool results (main.py, CustomJSONEncoder).        *)
(***************************************************************************)
\* float(obj) followed by the float's JSON text, for a decimal.Decimal:
\* the nearest binary64 value, printed with the shortest digits that read
\* back to it.  Decimals of at most 15 significant digits keep their
\* numeral; longer ones are rounded.
FloatOfDecimal(lit) ==
    CASE lit = "12345678901234567890.12" -> "1.2345678901234567e+19"
      [] OTHER -> lit

\* CustomJSONEncoder.default(obj): called for the values json cannot encode
\* natively.  None of the modelled values has a __dict__.
CustomJSONEncoder_default(obj) ==
    CASE obj.k = "datetime" -> [ok |-> TRUE, val |-> JStr(obj.iso)]
      [] obj.k = "decimal" -> [ok |-> TRUE, val |-> JFloat(FloatOfDecimal(obj.lit))]
      [] OTHER -> [ok |-> FALSE, val |-> JNull]

\* json.JSONEncoder.default(obj): always raises TypeError
JSONEncoder_default(obj) == [ok |-> FALSE, val |-> JNull]

\* the JSON value a scalar is written as, or ok = FALSE for a TypeError
EncodeScalar(v, custom) ==
    IF v.k \in {"null", "bool", "int", "float", "str"}
    THEN [ok |-> TRUE, val |-> v]
    ELSE IF custom THEN CustomJSONEncoder_default(v) ELSE JSONEncoder_default(v)

\* one element of a result list: a table name (str) or a row (dict)
EncodeItem(item, custom) ==
    IF item.k = "dict"
    THEN LET enc == [i \in DOMAIN item.items |-> EncodeScalar(item.items[i][2], custom)]
         IN  [ok |-> \A i \in DOMAIN enc : enc[i].ok,
              val |-> JDict([i \in DOMAIN enc |-> <<item.items[i][1], enc[i].val>>])]
    ELSE EncodeScalar(item, custom)

\* json.dumps(result, cls=..., indent=2) for a result list: the document the
\* text denotes, or ok = FALSE when the encoder raises TypeError
JsonDumps(result, custom) ==
    LET enc == [i \in DOMAIN result.items |-> EncodeItem(result.items[i], custom)]
    IN  [ok |-> \A i \in DOMAIN enc : enc[i].ok,
         val |-> JList([i \in DOMAIN enc |-> enc[i].val])]

\* safe_json_dumps(obj, **kwargs)
safe_json_dumps(obj) == JsonDumps(obj, TRUE)

\* A text that is a JSON document, and a text that is Python's str(obj)
\* (single-quoted repr, not JSON).
JsonText(doc) == [fmt |-> "json", doc |-> doc]
ReprText(obj) == [fmt |-> "repr", of |-> obj]

(***************************************************************************)
(* HTTP responses.                                                         *)
(***************************************************************************)
\* JSONResponse({"jsonrpc": "2.0", "id": id, "result": result})
RpcResult(id, result) ==
    [status |-> 200,
     body |-> [jsonrpc |-> "2.0", id |-> id, result |-> result, error |-> JAbsent]]

\* JSONResponse({"jsonrpc": "2.0", "id": id, "error": {...}}, status_code=status)
RpcError(status, id, code, message) ==
    [status |-> status,
     body |-> [jsonrpc |-> "2.0", id |-> id, result |-> JAbsent,
               error |-> [code |-> code, message |-> message]]]

\* What the ASGI server answers when a handler lets an exception escape.
InternalServerError == [status |-> 500, body |-> [plain |-> "Internal Server Error"]]

\* the "result" of initialize
InitializeResult ==
    [protocolVersion |-> "2024-11-05",
     capabilities |-> [tools |-> "{}"],
     serverInfo |-> [name |-> "sql-mcp-server", version |-> "1.0.0"]]

\* {"content": [{"type": "text", "text": text}]}
ContentResult(text) == [content |-> << [type |-> "text", text |-> text] >>]

\* str(e) of the exceptions the handlers catch
AttributeErrorMsg == "object has no attribute 'get'"
JSONDecodeErrorMsg == "Expecting value: line 1 column 1 (char 0)"
TypeErrorMsg == "Object is not JSON serializable"

(***************************************************************************)
(* Route handlers of main.py, up to the point where they answer or call    *)
(* the tool executor.  A handler yields either                             *)
(*   [o |-> "respond", response |-> r]   the HTTP response, or             *)
(*   [o |-> "call", tool |-> t, query |-> q, request_id |-> i]             *)
(* when it calls get_tables() / run_query(query=q) and goes on afterwards. *)
(***************************************************************************)
Respond(r) == [o |-> "respond", response |-> r]
CallTool(t, q, i) == [o |-> "call", tool |-> t, query |-> q, request_id |-> i]

\* Variant of health_check that reports the connection as configured only
\* while the database answers.
health_check_probing(e) ==
    [status |-> 200,
     body |-> [status |-> "healthy",
               api_keys_configured |-> Truthy(Get1(e, "API_KEYS")),
               sql_connection_configured |->
                   Truthy(Get1(e, "SQL_SERVER_CONNECTION_STRING")) /\ dbUp,
               implementations |-> [fastmcp_sse |-> "/sse", http_mcp |-> "/mcp"]]]

\* health_check(): reads os.environ at request time
health_check(e) ==
    [status |-> 200,
     body |-> [status |-> "healthy",
               api_keys_configured |-> Truthy(Get1(e, "API_KEYS")),
               sql_connection_configured |->
                   Truthy(Get1(e, "SQL_SERVER_CONNECTION_STRING")),
               implementations |-> [fastmcp_sse |-> "/sse", http_mcp |-> "/mcp"]]]

\* tools_list literal of mcp_list_tools_handler
tools_list_handler ==
    << [name |-> "get_tables",
        description |-> "Get all database tables",
        inputSchema |-> [type |-> "object", properties |-> << >>, required |-> << >>]],
       [name |-> "run_query",
        description |-> "Execute a SQL query",
        inputSchema |->
            [type |-> "object",
             properties |->
                 << <<"query", [type |-> "string",
                                description |-> "SQL query to execute"]>> >>,
             required |-> <<"query">>]] >>

\* mcp_list_tools_handler(body): body is a dict here
mcp_list_tools_handler(body) ==
    LET request_id == Get(body, "id", JInt(1))
    IN  Respond(RpcResult(request_id, [tools |-> tools_list_handler]))

\* `if not query:` of mcp_call_tool_handler
handler_query_missing(query) == ~Truthy(query)

\* mcp_call_tool_handler(body), lines 194-229: body is a dict here
mcp_call_tool_handler(body) ==
    LET params == Get(body, "params", EmptyParams)
        caught == Respond(RpcError(500, Get(body, "id", JInt(1)), -32603,
                                   AttributeErrorMsg))
    IN  IF ~IsDict(params) THEN caught
        ELSE
        LET tool_name == Get1(params, "name")
            arguments == Get(params, "arguments", EmptyArgs)
            request_id == Get(body, "id", JInt(1))
        IN  IF tool_name = JStr("get_tables")
            THEN CallTool("get_tables", JNull, request_id)
            ELSE IF tool_name = JStr("run_query")
            THEN IF ~IsDict(arguments) THEN caught
                 ELSE LET query == Get1(arguments, "query")
                      IN  IF handler_query_missing(query)
                          THEN Respond(RpcError(200, request_id, -32602,
                                                "Query parameter is required"))
                          ELSE CallTool("run_query", query, request_id)
            ELSE Respond(RpcError(200, request_id, -32601,
                                  "Unknown tool: " \o PyStr(tool_name)))

\* mcp_call_tool_handler, lines 231-252: after the executor has returned
mcp_call_tool_handler_result(request_id, result) ==
    LET dumped == safe_json_dumps(result)
        result_text == IF dumped.ok THEN JsonText(dumped.val) ELSE ReprText(result)
    IN  RpcResult(request_id, ContentResult(result_text))

\* mcp_handler(request) for GET /mcp
mcp_handler_get == Respond(RpcResult(JInt(1), InitializeResult))

\* Variant of method_not_found that answers with the default id.
method_not_found_default_id(request_id, method) ==
    RpcError(200, JInt(1), -32601, "Method not found: " \o PyStr(method))

\* the else branch of mcp_handler: the JSON-RPC "method not found" answer
method_not_found(request_id, method) ==
    RpcError(200, request_id, -32601, "Method not found: " \o PyStr(method))

\* mcp_handler(request) for POST /mcp
mcp_handler(body) ==
    IF body.k = "invalid"
    THEN Respond(RpcError(500, JInt(1), -32603, JSONDecodeErrorMsg))
    ELSE IF ~IsDict(body)
    THEN Respond(RpcError(500, JInt(1), -32603, AttributeErrorMsg))
    ELSE
    LET method == Get1(body, "method")
        request_id == Get(body, "id", JInt(1))
    IN  IF method = JStr("initialize")
        THEN Respond(RpcResult(request_id, InitializeResult))
        ELSE IF method = JStr("tools/list") THEN mcp_list_tools_handler(body)
        ELSE IF method = JStr("tools/call") THEN mcp_call_tool_handler(body)
        ELSE Respond(method_not_found(request_id, method))

\* mcp_initialize(request): no try block, body.get("id") without a default
mcp_initialize(body) ==
    IF ~IsDict(body) THEN Respond(InternalServerError)
    ELSE Respond(RpcResult(Get1(body, "id"), InitializeResult))

\* Variant of tools_list_route in which run_query requires nothing.
tools_list_route_nothing_required ==
    << [name |-> "get_tables",
        description |-> "Get all database tables",
        inputSchema |-> [type |-> "object", properties |-> << >>, required |-> << >>]],
       [name |-> "run_query",
        description |-> "Execute a SQL query",
        inputSchema |->
            [type |-> "object",
             properties |->
                 << <<"query", [type |-> "string",
                                description |-> "SQL query to execute"]>> >>,
             required |-> << >>]] >>

\* tools_list literal of mcp_list_tools
tools_list_route ==
    << [name |-> "get_tables",
        description |-> "Get all database tables",
        inputSchema |-> [type |-> "object", properties |-> << >>, required |-> << >>]],
       [name |-> "run_query",
        description |-> "Execute a SQL query",
        inputSchema |->
            [type |-> "object",
             properties |->
                 << <<"query", [type |-> "string",
                                description |-> "SQL query to execute"]>> >>,
             required |-> <<"query">>]] >>

\* mcp_list_tools(request): POST reads the body (a parse failure gives {}),
\* GET leaves request_body = {}; request_body.get is outside any try block
mcp_list_tools(httpMethod, body) ==
    LET request_body == IF httpMethod = "POST" /\ body.k # "invalid"
                        THEN body
                        ELSE JBody(JAbsent, JAbsent, JAbsent, JAbsent, JAbsent)
    IN  IF ~IsDict(request_body) THEN Respond(InternalServerError)
        ELSE Respond(RpcResult(Get(request_body, "id", JInt(1)),
                               [tools |-> tools_list_route]))

\* Variant of mcp_call_tool_except that never reads the request's id.
mcp_call_tool_except_default_id(body, message) ==
    IF IsDict(body) \/ body.k = "invalid"
    THEN RpcError(500, JInt(1), -1, message)
    ELSE InternalServerError

\* the except block of mcp_call_tool:
\* "id": body.get("id", 1) if 'body' in locals() else 1
mcp_call_tool_except(body, message) ==
    IF body.k = "invalid" THEN RpcError(500, JInt(1), -1, message)
    ELSE IF ~IsDict(body) THEN InternalServerError
    ELSE RpcError(500, Get(body, "id", JInt(1)), -1, message)

\* Variant of call_tool_name that reads the nested shape only.
call_tool_name_nested_only(params, body) == Get1(params, "name")

\* tool_name = body.get("params", {}).get("name") or body.get("name")
call_tool_name(params, body) == PyOr(Get1(params, "name"), Get1(body, "name"))

\* arguments = body.get("params", {}).get("arguments") or body.get("arguments", {})
call_tool_arguments(params, body) ==
    PyOr(Get1(params, "arguments"), Get(body, "arguments", EmptyArgs))

\* Variant of route_query_missing that tests `query is None`.
route_query_is_none(query) == query = JNull

\* `if not query:` of mcp_call_tool
route_query_missing(query) == ~Truthy(query)

\* mcp_call_tool(request), lines 337-356
mcp_call_tool(body) ==
    IF body.k = "invalid" THEN Respond(mcp_call_tool_except(body, JSONDecodeErrorMsg))
    ELSE IF ~IsDict(body) THEN Respond(mcp_call_tool_except(body, AttributeErrorMsg))
    ELSE
    LET params == Get(body, "params", EmptyParams)
    IN  IF ~IsDict(params) THEN Respond(mcp_call_tool_except(body, AttributeErrorMsg))
        ELSE
        LET tool_name == call_tool_name(params, body)
            arguments == call_tool_arguments(params, body)
            request_id == Get(body, "id", JInt(1))
        IN  IF tool_name = JStr("get_tables")
            THEN CallTool("get_tables", JNull, request_id)
            ELSE IF tool_name = JStr("run_query")
            THEN IF ~IsDict(arguments)
                 THEN Respond(mcp_call_tool_except(body, AttributeErrorMsg))
                 ELSE LET query == Get1(arguments, "query")
                      IN  IF route_query_missing(query)
                          THEN Respond(mcp_call_tool_except(body,
                                   "400: Query parameter is required"))
                          ELSE CallTool("run_query", query, request_id)
            ELSE Respond(mcp_call_tool_except(body,
                     "400: Unknown tool: " \o PyStr(tool_name)))

\* mcp_call_tool, lines 358-380: after the executor has returned; plain
\* json.dumps, whose TypeError lands in the except block
mcp_call_tool_result(body, request_id, result) ==
    LET dumped == JsonDumps(result, FALSE)
    IN  IF dumped.ok
        THEN RpcResult(request_id, ContentResult(JsonText(dumped.val)))
        ELSE mcp_call_tool_except(body, TypeErrorMsg)

\* mcp_list_resources(): no id in the answer
mcp_list_resources ==
    Respond([status |-> 200,
             body |-> [jsonrpc |-> "2.0", id |-> JAbsent,
                       result |-> [resources |-> << >>], error |-> JAbsent]])

\* mcp_debug(request)
mcp_debug(body) ==
    IF body.k = "invalid"
    THEN Respond(RpcError(500, JInt(1), -32603, JSONDecodeErrorMsg))
    ELSE IF ~IsDict(body)
    THEN Respond(RpcError(500, JInt(1), -32603, AttributeErrorMsg))
    ELSE Respond(RpcResult(Get(body, "id", JInt(1)),
                           [debug |-> "Request received successfully",
                            received_body |-> body,
                            method_found |-> Get(body, "method", JStr("NO_METHOD")),
                            params_found |-> Get(body, "params", JStr("NO_PARAMS"))]))

(***************************************************************************)
(* API-key dependency (api_key_auth.ensure_valid_api_key, attached to      *)
(* every route by FastAPI(dependencies=[Depends(...)])).                   *)
(***************************************************************************)
\* the keys listed in API_KEYS, comma-separated
ValidKeys(e) ==
    LET v == Get1(e, "API_KEYS")
    IN  CASE v = JStr("k1") -> {"k1"}
          [] OTHER -> {}

\* TRUE when the request's key is one of the configured keys
ensure_valid_api_key(e, key) == key \in ValidKeys(e)

\* the statuses a rejected request may be answered with
RejectStatuses == {401, 403}

Rejected(status) == [status |-> status, body |-> [detail |-> "Invalid API key"]]

(***************************************************************************)
(* Tool executor (sql_server_tools.py).                                    *)
(***************************************************************************)
\* Variant of SQL_SERVER_CONNECTION_STRING that falls back to a local server.
SQL_SERVER_CONNECTION_STRING_with_default(e) ==
    Get(e, "SQL_SERVER_CONNECTION_STRING", JStr("Driver=ODBC;Server=localhost"))

\* module global, read from the environment with "" as default
SQL_SERVER_CONNECTION_STRING(e) == Get(e, "SQL_SERVER_CONNECTION_STRING", JStr(""))

NotConfiguredMsg == "SQL_SERVER_CONNECTION_STRING not configured"

\* get_tables(): return [f"Error: {str(e)}"]
get_tables_error(msg) == JList(<< JStr("Error: " \o msg) >>)

\* Variant of run_query_error that returns the string form of get_tables.
run_query_error_as_string(msg) == JList(<< JStr("Error: " \o msg) >>)

\* run_query(): return [{"error": str(e)}]
run_query_error(msg) == JList(<< JDict(<< <<"error", JStr(msg)>> >>) >>)

\* the sentinel of either tool
ToolError(tool, msg) ==
    IF tool = "get_tables" THEN get_tables_error(msg) ELSE run_query_error(msg)

\* str(e) of what pyodbc.connect / cursor.execute raise, and of the
\* TypeError of iterating cursor.description = None
ConnectErrorMsg == "08001 Unable to connect to data source"
ExecuteErrorMsg == "42S02 Invalid object name"
NoResultSetMsg == "'NoneType' object is not iterable"

\* What the database may answer to the metadata query of get_tables:
\* [row[0] for row in cursor.fetchall()]
SampleTables ==
    { JList(<< >>),
      JList(<< JStr("customers") >>),
      JList(<< JStr("customers"), JStr("orders") >>) }

\* What the database may answer to a caller's query:
\* [dict(zip(columns, row)) for row in cursor.fetchall()]
SampleRows ==
    { JList(<< >>),
      JList(<< JDict(<< <<"id", JInt(7)>>, <<"name", JStr("ann")>>,
                        <<"active", JBool(TRUE)>>, <<"note", JNull>> >>) >>),
      JList(<< JDict(<< <<"id", JInt(7)>>,
                        <<"created", PyDatetime("2024-01-02T03:04:05")>> >>) >>),
      JList(<< JDict(<< <<"price", PyDecimal("1.5")>> >>) >>),
      JList(<< JDict(<< <<"total", PyDecimal("12345678901234567890.12")>> >>) >>),
      JList(<< JDict(<< <<"photo", PyBytes>> >>) >>) }

\* cursor.execute(...) and the fetch: a value, or an exception
Value(v) == [k |-> "value", val |-> v]
Raised(msg) == [k |-> "raise", msg |-> msg]

ExecuteOutcomes(tool) ==
    IF tool = "get_tables"
    THEN {Raised(ExecuteErrorMsg)} \cup {Value(t) : t \in SampleTables}
    ELSE {Raised(ExecuteErrorMsg), Raised(NoResultSetMsg)}
             \cup {Value(rows) : rows \in SampleRows}

\* a handle for a new connection: the smallest one not in use
FreshConn(open) == CHOOSE c \in 1..(Cardinality(open) + 1) : c \notin open

(***************************************************************************)
(* Requests.                                                               *)
(***************************************************************************)
Ids == {JAbsent, JNull, JInt(1), JInt(2)}
Names == {JAbsent, JStr(""), JStr("get_tables"), JStr("run_query"), JStr("drop_table")}
Queries == {JAbsent, JNull, JStr(""), JStr("SELECT * FROM customers")}
ArgValues == {JAbsent, JNull} \cup {JArgs(q) : q \in Queries}
ParamValues == {JAbsent, JNull} \cup {JParams(n, a) : n \in Names, a \in ArgValues}
Methods == {JAbsent, JStr("initialize"), JStr("tools/list"), JStr("resources/list")}

\* bodies that carry nothing but an id
PlainBodies ==
    {InvalidBody, NonObjectBody}
        \cup {JBody(i, JAbsent, JAbsent, JAbsent, JAbsent) : i \in Ids}

\* bodies posted to /mcp
McpBodies ==
    {InvalidBody, NonObjectBody}
        \cup {JBody(i, m, JAbsent, JAbsent, JAbsent) : i \in Ids, m \in Methods}
        \cup {JBody(i, JStr("tools/call"), p, JAbsent, JAbsent) :
                 i \in Ids, p \in ParamValues}

\* bodies posted to /mcp/tools/call: nested {params: {name, arguments}} ...
NestedBodies == {JBody(i, JAbsent, p, JAbsent, JAbsent) : i \in Ids, p \in ParamValues}
\* ... or flattened {name, arguments}
FlatBodies == {JBody(i, JAbsent, JAbsent, n, a) : i \in Ids, n \in Names, a \in ArgValues}
CallBodies == {InvalidBody, NonObjectBody} \cup NestedBodies \cup FlatBodies

RequestKeys == {"", "k1", "k3"}
EnvValues == {JAbsent, JStr("")}
Environments ==
    [k : {"object"},
     API_KEYS : EnvValues \cup {JStr("k1")},
     SQL_SERVER_CONNECTION_STRING : EnvValues \cup {JStr("Driver=ODBC;Server=db")}]

Idle ==
    [pc |-> "idle", route |-> "", httpMethod |-> "", key |-> "", body |-> JAbsent,
     tool |-> "", query |-> JNull, request_id |-> JNull,
     conn |-> 0, connects |-> 0, pending |-> JAbsent, caught |-> JAbsent,
     result |-> JAbsent,
     response |-> JAbsent]

Init ==
    /\ env \in Environments
    /\ dbUp \in BOOLEAN
    /\ conns = {}
    /\ req = [r \in Workers |-> Idle]

\* the server accepts a request on a route
Receive(r, httpMethod, route, keys) ==
    /\ req[r].pc = "idle"
    /\ \E key \in keys :
           req' = [req EXCEPT ![r] = [Idle EXCEPT !.pc = "auth", !.route = route,
                                                  !.httpMethod = httpMethod,
                                                  !.key = key]]
    /\ UNCHANGED <<env, dbUp, conns>>

\* the app-wide dependency runs before any handler
Authenticate(r) ==
    /\ req[r].pc = "auth"
    /\ IF ensure_valid_api_key(env, req[r].key)
       THEN req' = [req EXCEPT ![r].pc = "handler"]
       ELSE \E s \in RejectStatuses :
                req' = [req EXCEPT ![r].pc = "done", ![r].response = Rejected(s)]
    /\ UNCHANGED <<env, dbUp, conns>>

\* a handler runs on `body` up to its answer or its call of the executor
Serve(r, httpMethod, route, body, outcome) ==
    /\ req[r].pc = "handler"
    /\ req[r].httpMethod = httpMethod
    /\ req[r].route = route
    /\ IF outcome.o = "respond"
       THEN req' = [req EXCEPT ![r].pc = "done", ![r].body = body,
                               ![r].response = outcome.response]
       ELSE req' = [req EXCEPT ![r].pc = "call", ![r].body = body,
                               ![r].tool = outcome.tool,
                               ![r].query = outcome.query,
                               ![r].request_id = outcome.request_id]
    /\ UNCHANGED <<env, dbUp, conns>>

HealthCheck(r) == Serve(r, "GET", "/health", JAbsent, Respond(health_check(env)))

McpGet(r) == Serve(r, "GET", "/mcp", JAbsent, mcp_handler_get)

McpPost(r, bodies) == \E b \in bodies : Serve(r, "POST", "/mcp", b, mcp_handler(b))

McpInitialize(r) ==
    \E b \in PlainBodies : Serve(r, "POST", "/mcp/initialize", b, mcp_initialize(b))

McpListToolsPost(r) ==
    \E b \in PlainBodies :
        Serve(r, "POST", "/mcp/tools/list", b, mcp_list_tools("POST", b))

McpListToolsGet(r) ==
    Serve(r, "GET", "/mcp/tools/list", JAbsent, mcp_list_tools("GET", JAbsent))

McpCallTool(r, bodies) ==
    \E b \in bodies : Serve(r, "POST", "/mcp/tools/call", b, mcp_call_tool(b))

McpListResources(r) == Serve(r, "GET", "/mcp/resources", JAbsent, mcp_list_resources)

McpDebug(r) == \E b \in PlainBodies : Serve(r, "POST", "/mcp/debug", b, mcp_debug(b))

(***************************************************************************)
(* The executor call of worker r: get_tables() or run_query(query).        *)
(***************************************************************************)
\* Entry of the tool: the configuration check, then pyodbc.connect(...).
\* Without a connection string the sentinel is returned at once; a failed
\* connect raises into the except block, which returns the sentinel.
Connect(r) ==
    /\ req[r].pc = "call"
    /\ IF ~Truthy(SQL_SERVER_CONNECTION_STRING(env))
       THEN /\ req' = [req EXCEPT ![r].pc = "encode",
                                  ![r].result = ToolError(req[r].tool, NotConfiguredMsg)]
            /\ conns' = conns
       ELSE IF dbUp
       THEN /\ req' = [req EXCEPT ![r].pc = "execute",
                                  ![r].connects = @ + 1,
                                  ![r].conn = FreshConn(conns)]
            /\ conns' = conns \cup {FreshConn(conns)}
       ELSE /\ req' = [req EXCEPT ![r].pc = "encode",
                                  ![r].connects = @ + 1,
                                  ![r].caught = JStr(ConnectErrorMsg),
                                  ![r].result = ToolError(req[r].tool, ConnectErrorMsg)]
            /\ conns' = conns
    /\ UNCHANGED <<env, dbUp>>

\* Body of the with block: cursor.execute, cursor.description, fetchall.
Execute(r, outcomes) ==
    /\ req[r].pc = "execute"
    /\ \E out \in outcomes[req[r].tool] :
           req' = [req EXCEPT ![r].pc = "exit", ![r].pending = out]
    /\ UNCHANGED <<env, dbUp, conns>>

\* Leaving the with block: pyodbc's Connection.__exit__ commits, or rolls
\* back when an exception passes through; it does not close the connection.
ExitWith(r) ==
    /\ req[r].pc = "exit"
    /\ req' = [req EXCEPT ![r].pc = "return"]
    /\ UNCHANGED <<env, dbUp, conns>>

\* Variant of ReleaseConn that leaves the connection open.
KeepConn(open, c) == open

\* the connections left open once worker r's call has returned: conn was
\* the only reference to the connection, which closes when it is dropped
ReleaseConn(open, c) == open \ {c}

\* return tables / return results, or the except block's sentinel; the
\* frame's locals (conn, cursor) are dropped
Return(r) ==
    /\ req[r].pc = "return"
    /\ req' = [req EXCEPT ![r].pc = "encode",
                          ![r].conn = 0,
                          ![r].pending = JAbsent,
                          ![r].caught = IF req[r].pending.k = "raise"
                                        THEN JStr(req[r].pending.msg)
                                        ELSE JAbsent,
                          ![r].result =
                              IF req[r].pending.k = "raise"
                              THEN ToolError(req[r].tool, req[r].pending.msg)
                              ELSE req[r].pending.val]
    /\ conns' = ReleaseConn(conns, req[r].conn)
    /\ UNCHANGED <<env, dbUp>>

\* the handler goes on with the tool's result and answers
Finish(r) ==
    /\ req[r].pc = "encode"
    /\ req' = [req EXCEPT ![r].pc = "done",
                          ![r].response =
                              IF req[r].route = "/mcp"
                              THEN mcp_call_tool_handler_result(req[r].request_id,
                                                                req[r].result)
                              ELSE mcp_call_tool_result(req[r].body, req[r].request_id,
                                                        req[r].result)]
    /\ UNCHANGED <<env, dbUp, conns>>

\* the response has been sent; nothing of the request is kept
Complete(r) ==
    /\ req[r].pc = "done"
    /\ req' = [req EXCEPT ![r] = Idle]
    /\ UNCHANGED <<env, dbUp, conns>>

\* the database server goes down or comes back
DbToggle ==
    /\ dbUp' = ~dbUp
    /\ UNCHANGED <<env, conns, req>>

\* no other request is in flight
Alone(r) == \A s \in Workers \ {r} : req[s].pc = "idle"

Tools == {"get_tables", "run_query"}

\* every answer of the database that is modelled
AllOutcomes == [t \in Tools |-> ExecuteOutcomes(t)]

Executor(r, outcomes) ==
    Connect(r) \/ Execute(r, outcomes) \/ ExitWith(r) \/ Return(r)

(***************************************************************************)
(* Spec: every route and every body shape, one request at a time (the      *)
(* handlers never await between reading the body and answering).           *)
(***************************************************************************)
Next ==
    \/ \E r \in Workers :
           /\ Alone(r)
           /\ \/ Receive(r, "GET", "/health", RequestKeys)
              \/ Receive(r, "GET", "/mcp", RequestKeys)
              \/ Receive(r, "POST", "/mcp", RequestKeys)
              \/ Receive(r, "POST", "/mcp/initialize", RequestKeys)
              \/ Receive(r, "POST", "/mcp/tools/list", RequestKeys)
              \/ Receive(r, "GET", "/mcp/tools/list", RequestKeys)
              \/ Receive(r, "POST", "/mcp/tools/call", RequestKeys)
              \/ Receive(r, "GET", "/mcp/resources", RequestKeys)
              \/ Receive(r, "POST", "/mcp/debug", RequestKeys)
    \/ \E r \in Workers :
           \/ Authenticate(r)
           \/ HealthCheck(r)
           \/ McpGet(r)
           \/ McpPost(r, McpBodies)
           \/ McpInitialize(r)
           \/ McpListToolsPost(r)
           \/ McpListToolsGet(r)
           \/ McpCallTool(r, CallBodies)
           \/ McpListResources(r)
           \/ McpDebug(r)
           \/ Executor(r, AllOutcomes)
           \/ Finish(r)
           \/ Complete(r)
    \/ DbToggle

Spec == Init /\ [][Next]_vars

(***************************************************************************)
(* SpecConc: tool calls of several clients in flight at once (several      *)
(* server processes or replicas against one database), the executor's      *)
(* steps interleaved in every order.  The requests are well-formed tool    *)
(* calls with a valid key; the database answers with one row set or an     *)
(* error.                                                                  *)
(***************************************************************************)
ConcOutcomes ==
    [t \in Tools |->
        {Raised(ExecuteErrorMsg),
         Value(IF t = "get_tables" THEN JList(<< JStr("customers") >>) ELSE JList(<< >>))}]

ConcMcpBodies ==
    {JBody(JInt(1), JStr("tools/call"), JParams(JStr("get_tables"), JAbsent),
           JAbsent, JAbsent)}

ConcCallBodies ==
    {JBody(JInt(2), JAbsent, JAbsent, JStr("run_query"),
           JArgs(JStr("SELECT * FROM customers")))}

InitConc ==
    /\ Init
    /\ env.API_KEYS = JStr("k1")

NextConc ==
    \/ \E r \in Workers :
           \/ Receive(r, "POST", "/mcp", {"k1"})
           \/ Receive(r, "POST", "/mcp/tools/call", {"k1"})
           \/ Authenticate(r)
           \/ McpPost(r, ConcMcpBodies)
           \/ McpCallTool(r, ConcCallBodies)
           \/ Executor(r, ConcOutcomes)
           \/ Finish(r)
           \/ Complete(r)
    \/ DbToggle

SpecConc == InitConc /\ [][NextConc]_vars

(***************************************************************************)
(* SpecTwin: a client posts a tool call to /mcp/tools/call in the          *)
(* flattened shape (worker 1) and the same call, with the same id, name    *)
(* and arguments, in the nested shape (worker 2).                          *)
(***************************************************************************)
\* the nested body with the id, name and arguments of the flattened body b
NestedOf(b) == JBody(b.id, JAbsent, JParams(b.name, b.arguments), JAbsent, JAbsent)

\* the nested twin of the body worker 1 has read
TwinBodies ==
    IF IsDict(req[1].body) /\ req[1].body.params = JAbsent
    THEN {NestedOf(req[1].body)}
    ELSE {}

NextTwin ==
    \/ \E r \in {1, 2} :
           \/ Receive(r, "POST", "/mcp/tools/call", {"k1"})
           \/ Authenticate(r)
           \/ Executor(r, AllOutcomes)
           \/ Finish(r)
    \/ McpCallTool(1, FlatBodies)
    \/ McpCallTool(2, TwinBodies)
    \/ Complete(2)
    \/ DbToggle

SpecTwin == InitConc /\ [][NextTwin]_vars

(***************************************************************************)
(* Vocabulary of the properties.                                           *)
(***************************************************************************)
\* worker r's request passed the API-key dependency and has been answered
\* by its route handler
Answered(r) == req[r].pc = "done" /\ ensure_valid_api_key(env, req[r].key)

OnRoute(r, httpMethod, route) ==
    req[r].httpMethod = httpMethod /\ req[r].route = route

\* the body is a JSON object that carries an id
HasId(b) == IsDict(b) /\ b.id # JAbsent

\* the nested shape {params: {name, arguments}} and the flattened shape
\* {name, arguments} of a tool call
IsNested(b) ==
    /\ IsDict(b)
    /\ IsDict(b.params)
    /\ b.name = JAbsent
    /\ b.arguments = JAbsent
IsFlat(b) == IsDict(b) /\ b.params = JAbsent

\* the name and the arguments a tool call carries
CalledName(b) == IF IsNested(b) THEN b.params.name ELSE b.name
CalledArguments(b) == IF IsNested(b) THEN b.params.arguments ELSE b.arguments

\* worker r's request is a call of tool t on one of the two transport paths
ToolCall(r, t) ==
    /\ \/ /\ OnRoute(r, "POST", "/mcp")
          /\ IsNested(req[r].body)
          /\ req[r].body.method = JStr("tools/call")
       \/ /\ OnRoute(r, "POST", "/mcp/tools/call")
          /\ IsNested(req[r].body) \/ IsFlat(req[r].body)
    /\ CalledName(req[r].body) = JStr(t)

\* the arguments carry a non-empty query
HasQuery(a) == IsDict(a) /\ a.query.k = "str" /\ a.query.v # ""

\* worker r's request calls a tool the way the tool's schema asks
CallsGetTables(r) == ToolCall(r, "get_tables")
CallsRunQuery(r) == ToolCall(r, "run_query") /\ HasQuery(CalledArguments(req[r].body))

\* the response is a JSON-RPC result / error envelope
IsResult(resp) ==
    /\ "result" \in DOMAIN resp.body
    /\ resp.body.result # JAbsent
    /\ resp.body.error = JAbsent
IsError(resp) ==
    /\ "error" \in DOMAIN resp.body
    /\ resp.body.error # JAbsent
    /\ resp.body.result = JAbsent

\* json.loads(result.content[0].text): the document, or JAbsent when the
\* response has no such text or the text is not JSON
ParsedText(resp) ==
    IF IsResult(resp) /\ "content" \in DOMAIN resp.body.result
    THEN LET text == resp.body.result.content[1].text
         IN  IF text.fmt = "json" THEN text.doc ELSE JAbsent
    ELSE JAbsent

SqlUnset == Get1(env, "SQL_SERVER_CONNECTION_STRING") \in {JNull, JStr("")}

(***************************************************************************)
(* C1: on POST /mcp, a JSON object whose method is none of initialize,     *)
(* tools/list, tools/call (or is missing) is answered with a JSON-RPC      *)
(* error of code -32601 that echoes the request's id (1 when the request   *)
(* has none) and has no result.                                            *)
(***************************************************************************)
UnknownMethod(r) ==
    /\ Answered(r)
    /\ OnRoute(r, "POST", "/mcp")
    /\ IsDict(req[r].body)
    /\ req[r].body.method # JStr("initialize")
    /\ req[r].body.method # JStr("tools/list")
    /\ req[r].body.method # JStr("tools/call")

C1_MethodNotFound ==
    \A r \in Workers :
        UnknownMethod(r) =>
            /\ IsError(req[r].response)
            /\ req[r].response.body.error.code = -32601
            /\ req[r].response.body.id =
                   (IF req[r].body.id = JAbsent THEN JInt(1) ELSE req[r].body.id)

C1_Witness ==
    \E r \in Workers :
        /\ UnknownMethod(r)
        /\ req[r].body.method = JStr("resources/list")
        /\ req[r].body.id = JInt(2)

(***************************************************************************)
(* C3: run_query called without a query (arguments absent or null, query   *)
(* absent, null or empty) is answered, on both paths, with an error        *)
(* envelope without result; no exception escapes the handler and the       *)
(* executor is not entered.                                                *)
(***************************************************************************)
MissingQuery(r) ==
    /\ Answered(r)
    /\ ToolCall(r, "run_query")
    /\ ~HasQuery(CalledArguments(req[r].body))

C3_MissingQueryIsError ==
    \A r \in Workers :
        MissingQuery(r) =>
            /\ IsError(req[r].response)
            /\ req[r].response # InternalServerError
            /\ req[r].tool = ""
            /\ req[r].connects = 0
            /\ req[r].result = JAbsent

C3_Witness ==
    \E r \in Workers :
        /\ MissingQuery(r)
        /\ OnRoute(r, "POST", "/mcp/tools/call")
        /\ IsFlat(req[r].body)
        /\ CalledArguments(req[r].body) = JArgs(JStr(""))

(***************************************************************************)
(* C4: with SQL_SERVER_CONNECTION_STRING unset or empty, a call of         *)
(* get_tables, or of run_query with a query, is answered on both paths     *)
(* with status 200 and a result whose text holds the tool's                *)
(* "SQL_SERVER_CONNECTION_STRING not configured" value, without error      *)
(* field, and pyodbc.connect is never called.                              *)
(***************************************************************************)
C4_NotConfigured ==
    \A r \in Workers :
        (Answered(r) /\ SqlUnset) =>
            /\ CallsGetTables(r) =>
                   /\ req[r].response.status = 200
                   /\ ParsedText(req[r].response) =
                          JList(<< JStr("Error: SQL_SERVER_CONNECTION_STRING not configured") >>)
                   /\ req[r].connects = 0
            /\ CallsRunQuery(r) =>
                   /\ req[r].response.status = 200
                   /\ ParsedText(req[r].response) =
                          JList(<< JDict(<< <<"error",
                              JStr("SQL_SERVER_CONNECTION_STRING not configured")>> >>) >>)
                   /\ req[r].connects = 0

C4_Witness ==
    \E r \in Workers :
        /\ Answered(r)
        /\ SqlUnset
        /\ CallsRunQuery(r)
        /\ OnRoute(r, "POST", "/mcp/tools/call")
        /\ conns = {}

(***************************************************************************)
(* C2: a run_query call with a non-empty query is answered, on both        *)
(* paths, with a result whose content[0].text parses as JSON equal to what *)
(* the executor returned (rows of strings, numbers, booleans, nulls,       *)
(* timestamps and decimals, or the executor's error value).                *)
(***************************************************************************)
\* A scalar as the JSON value that stands for it: a timestamp is its
\* ISO-8601 string, a decimal the JSON number nearest to it (the rounding
\* of decimals longer than a float holds is left open by the design notes).
ScalarAsJson(v) ==
    CASE v.k = "datetime" -> JStr(v.iso)
      [] v.k = "decimal" -> JFloat(FloatOfDecimal(v.lit))
      [] OTHER -> v

RowAsJson(row) ==
    JDict([i \in DOMAIN row.items |-> <<row.items[i][1], ScalarAsJson(row.items[i][2])>>])

RowsAsJson(rows) == JList([i \in DOMAIN rows.items |-> RowAsJson(rows.items[i])])

\* the scalar types the claim is about
ClaimedScalars == {"str", "int", "bool", "null", "datetime", "decimal"}

OfClaimedScalars(rows) ==
    \A i \in DOMAIN rows.items :
        \A j \in DOMAIN rows.items[i].items :
            rows.items[i].items[j][2].k \in ClaimedScalars

C2_ResultTextIsRows ==
    \A r \in Workers :
        (Answered(r) /\ CallsRunQuery(r) /\ OfClaimedScalars(req[r].result)) =>
            ParsedText(req[r].response) = RowsAsJson(req[r].result)

(***************************************************************************)
(* C5: on POST /mcp, /mcp/tools/list, /mcp/tools/call, /mcp/initialize and *)
(* /mcp/debug, a request body that carries an id is answered with that     *)
(* id, on result and on error responses alike.                             *)
(***************************************************************************)
IdRoute(route) ==
    \/ route = "/mcp"
    \/ route = "/mcp/tools/list"
    \/ route = "/mcp/tools/call"
    \/ route = "/mcp/initialize"
    \/ route = "/mcp/debug"

C5_IdEchoed ==
    \A r \in Workers :
        (Answered(r) /\ req[r].httpMethod = "POST" /\ IdRoute(req[r].route)
                     /\ HasId(req[r].body)) =>
            /\ "id" \in DOMAIN req[r].response.body
            /\ req[r].response.body.id = req[r].body.id

\* an error path: run_query without query on /mcp/tools/call, id 2
C5_Witness ==
    \E r \in Workers :
        /\ MissingQuery(r)
        /\ OnRoute(r, "POST", "/mcp/tools/call")
        /\ req[r].body.id = JInt(2)
        /\ IsError(req[r].response)

(***************************************************************************)
(* C6: tools/list (POST /mcp with method tools/list, POST or GET           *)
(* /mcp/tools/list), for a body that is a JSON object, missing or not      *)
(* JSON, under every configuration, returns exactly get_tables (no         *)
(* properties, nothing required) and run_query (one required string        *)
(* argument query), the same on both entry points.                         *)
(***************************************************************************)
ListsTools(r) ==
    /\ Answered(r)
    /\ \/ /\ OnRoute(r, "POST", "/mcp")
          /\ IsDict(req[r].body)
          /\ req[r].body.method = JStr("tools/list")
       \/ /\ OnRoute(r, "POST", "/mcp/tools/list")
          /\ req[r].body # NonObjectBody
       \/ OnRoute(r, "GET", "/mcp/tools/list")

DeclaredTools(tools) ==
    /\ Len(tools) = 2
    /\ {tools[i].name : i \in DOMAIN tools} = {"get_tables", "run_query"}
    /\ \A i \in DOMAIN tools :
           /\ tools[i].inputSchema.type = "object"
           /\ tools[i].name = "get_tables" =>
                  /\ tools[i].inputSchema.properties = << >>
                  /\ tools[i].inputSchema.required = << >>
           /\ tools[i].name = "run_query" =>
                  /\ Len(tools[i].inputSchema.properties) = 1
                  /\ tools[i].inputSchema.properties[1][1] = "query"
                  /\ tools[i].inputSchema.properties[1][2].type = "string"
                  /\ tools[i].inputSchema.required = <<"query">>

C7_HealthAlways200 ==
    \A r \in Workers :
        (req[r].pc = "done" /\ OnRoute(r, "GET", "/health")) =>
            req[r].response.status = 200

(***************************************************************************)
(* C7, amended: every GET /health that passes the API-key dependency is    *)
(* answered with status 200, api_keys_configured true exactly when         *)
(* API_KEYS is set and non-empty, sql_connection_configured true exactly   *)
(* when SQL_SERVER_CONNECTION_STRING is set and non-empty; the request     *)
(* never calls pyodbc.connect, whether the database is up or down.         *)
(***************************************************************************)
EnvPresent(name) == env[name] # JAbsent /\ env[name] # JStr("")

C7_HealthReflectsEnv ==
    \A r \in Workers :
        (Answered(r) /\ OnRoute(r, "GET", "/health")) =>
            /\ req[r].response.status = 200
            /\ req[r].response.body.api_keys_configured = EnvPresent("API_KEYS")
            /\ req[r].response.body.sql_connection_configured =
                   EnvPresent("SQL_SERVER_CONNECTION_STRING")
            /\ req[r].connects = 0
            /\ req[r].conn = 0
            /\ conns = {}

C7_Witness ==
    \E r \in Workers :
        /\ Answered(r)
        /\ OnRoute(r, "GET", "/health")
        /\ ~dbUp
        /\ EnvPresent("SQL_SERVER_CONNECTION_STRING")
        /\ req[r].response.body.sql_connection_configured

(***************************************************************************)
(* C10: when pyodbc.connect, cursor.execute or the read of the result set  *)
(* raises, the tool returns a one-element list (get_tables: a string that  *)
(* starts with "Error: ", run_query: a mapping with the single key         *)
(* "error") and the transport answers with a result that carries it and    *)
(* has no error field.                                                     *)
(***************************************************************************)
IsSentinel(tool, value) ==
    /\ value.k = "list"
    /\ Len(value.items) = 1
    /\ IF tool = "get_tables"
       THEN /\ value.items[1].k = "str"
            /\ \/ value.items[1].v = "Error: " \o ConnectErrorMsg
               \/ value.items[1].v = "Error: " \o ExecuteErrorMsg
       ELSE /\ value.items[1].k = "dict"
            /\ Len(value.items[1].items) = 1
            /\ value.items[1].items[1][1] = "error"
            /\ value.items[1].items[1][2].k = "str"

\* the tool raised inside worker r's call and the call has returned
ToolRaised(r) == req[r].pc \in {"encode", "done"} /\ req[r].caught # JAbsent

C10_DbErrorInBand ==
    \A r \in Workers :
        ToolRaised(r) =>
            /\ IsSentinel(req[r].tool, req[r].result)
            /\ req[r].pc = "done" =>
                   /\ IsResult(req[r].response)
                   /\ ParsedText(req[r].response) = req[r].result

\* a statement without result set, on POST /mcp/tools/call
C10_Witness ==
    \E r \in Workers :
        /\ ToolRaised(r)
        /\ req[r].pc = "done"
        /\ req[r].tool = "run_query"
        /\ req[r].caught = JStr(NoResultSetMsg)
        /\ OnRoute(r, "POST", "/mcp/tools/call")

(***************************************************************************)
(* C8: a tool call made with a connection string configured calls          *)
(* pyodbc.connect exactly once; the connection it gets is its own, is open *)
(* only while the call is between connect and return, and is closed when   *)
(* the call has returned, after a result and after an exception; whatever  *)
(* the interleaving, two requests never hold the same connection and no    *)
(* connection is open that no running call holds.                          *)
(***************************************************************************)
InCall(r) == req[r].pc \in {"execute", "exit", "return"}
Returned(r) == req[r].pc \in {"encode", "done"}

C8_OwnConnection ==
    /\ \A r \in Workers :
           /\ InCall(r) => (req[r].conn \in conns /\ req[r].connects = 1)
           /\ ~InCall(r) => req[r].conn = 0
           /\ (Returned(r) /\ ~SqlUnset) => req[r].connects = 1
    /\ \A r, q \in Workers : (r # q /\ InCall(r) /\ InCall(q)) => req[r].conn # req[q].conn
    /\ conns = {req[r].conn : r \in {q \in Workers : InCall(q)}}

\* two calls hold a connection each, one of them with an exception pending
C8_Witness ==
    \E r, q \in Workers :
        /\ r # q
        /\ InCall(r) /\ req[r].tool = "get_tables"
        /\ InCall(q) /\ req[q].tool = "run_query" /\ req[q].pending = Raised(ExecuteErrorMsg)
        /\ Cardinality(conns) = 2

\* a call that raised has returned while another call is still running
C8_WitnessClosed ==
    \E r, q \in Workers :
        /\ Returned(r) /\ req[r].caught = JStr(ExecuteErrorMsg)
        /\ InCall(q)
        /\ conns = {req[q].conn}

(***************************************************************************)
(* C9 as stated: on POST /mcp/tools/call the flattened body and the nested *)
(* body with the same id, name and arguments get the same response, for    *)
(* every name and every arguments value.                                   *)
(***************************************************************************)
\* both twins are answered, and the executor gave both the same result (or
\* was entered by neither)
TwinsAnswered ==
    /\ Answered(1) /\ Answered(2)
    /\ IsFlat(req[1].body)
    /\ req[2].body = NestedOf(req[1].body)
    /\ req[1].result = req[2].result

ShapeNeutral(b) ==
    /\ b.name # JStr("")
    /\ b.arguments = JAbsent \/ IsDict(b.arguments)

====
